---- MODULE Spec2Model ----
(***************************************************************************)
(* aws-cost-radar: the multi-region scan of the EC2, NAT gateway and KMS   *)
(* families (ResourceInventoryManager.run, NATGatewayInventoryManager.run, *)
(* KMSCollector.run) on a ThreadPoolExecutor, and the per-region collection*)
(* operations with their sub-scans (EC2RegionCollector.collect,            *)
(* NATGatewayCollector.collect, KMSCollector.scan_region,                  *)
(* RDSCostAuditor.run_audit).                                              *)
(***************************************************************************)
EXTENDS Integers, Sequences, FiniteSets, TLC

VARIABLES
    family,        \* which manager runs: "EC2", "NAT" or "KMS"
    target,        \* run(target_region): a region name, or NoTarget
    listing,       \* what describe_regions answers: [ok, Regions]
    prov,          \* per region, the provider's behaviour (a RegionCases name)
    runPc,         \* position of run: "start","loop","shutdown","returned","raised"
    regions,       \* the resolved region list
    queue,         \* the executor's work queue (regions submitted, not started)
    task,          \* per region: "none","queued","running","done","raised"
    runs,          \* per region: how many times its task was started
    handled,       \* per region: how many times as_completed's loop body saw its future
    all_findings,  \* the list run returns
    log,           \* error records written to the logger
    exc,           \* the exception run is unwinding with: "none",
                   \* "KeyboardInterrupt" or "Exception"
    \* one region task, sub-scan by sub-scan
    tFamily,       \* "EC2" (EC2RegionCollector.collect), "RDS" (RDSCostAuditor.run_audit)
                   \* or "idle"
    config,        \* RDSConfig: the four include_ toggles
    tPc,           \* the sub-scan the task runs next
    tState,        \* "running", "returned" or "raised"
    findings,      \* collect's local list
    cost_items,    \* RDSCostAuditor.cost_items
    active_instances,
    active_clusters,
    used,          \* per sub-scan query, how the provider answered it (NotRun before)
    audits,        \* how many times run_audit was called on the auditor object
    \* one call of _scan_nat_gateways, gateway by gateway
    gateways,      \* response['NatGateways']: what the provider answers
    natPc,         \* index of the gateway the loop is at (0: no scan)
    natFindings,   \* _scan_nat_gateways' local list
    \* the loop body of scan_region for one key
    kmsKey,        \* the key as the provider holds it
    kmsPc,         \* "idle", "describe", "rotation", "appended" or "raised"
    kmsFindings,   \* scan_region's local list
    queried,       \* the key ids get_key_rotation_status was called for
    \* display_results of the EC2 inventory
    summary,       \* what display_results printed (NotDisplayed before the call)
    \* AWSSessionManager, called from several threads
    session,       \* self._session: per region the cached session (NoSession: no entry)
    created,       \* per region, how many times boto3.Session(region_name=region) ran
    caller         \* per calling thread: its region, its position in get_session,
                   \* the session it built and the session it was returned

poolVars == <<family, target, listing, prov, runPc, regions, queue, task,
              runs, handled, all_findings, log, exc>>

taskVars == <<tFamily, config, tPc, tState, findings, cost_items, active_instances,
              active_clusters, used, audits>>

sessVars == <<session, created, caller>>

unitVars == <<gateways, natPc, natFindings, kmsKey, kmsPc, kmsFindings, queried, summary,
              sessVars>>

vars == <<poolVars, taskVars, unitVars>>

----------------------------------------------------------------------------
(* Bounds *)

NumRegions == 3
MaxWorkers == 2
NumPages == 2
MaxAudits == 2
NumCallers == 2

AllRegions == <<"us-east-1", "eu-west-1", "ap-south-1", "sa-east-1", "eu-north-1">>
RegionNames == {AllRegions[i] : i \in 1..NumRegions}
NoTarget == "None"
DefaultRegion == "us-east-1"

----------------------------------------------------------------------------
(* Sequence helpers *)

RECURSIVE Flatten(_)
Flatten(ss) == IF ss = <<>> THEN <<>> ELSE Head(ss) \o Flatten(Tail(ss))

Range(s) == {s[i] : i \in DOMAIN s}

RECURSIVE SumSeq(_)
SumSeq(xs) == IF xs = <<>> THEN 0 ELSE Head(xs) + SumSeq(Tail(xs))

----------------------------------------------------------------------------
(* The provider, as the collectors see it.                                  *)
(* A paginated query is a record [pages, failAt, err]: pages is what the    *)
(* provider holds, failAt = 0 when every fetch succeeds and k > 0 when the  *)
(* fetch of page k raises err ("ClientError" or "Other": any exception that *)
(* is not a botocore ClientError).                                          *)

(* A record the provider holds has an id, and a source when it is a snapshot. *)

Rec(id) == [id |-> id, source |-> <<"-", 0>>]

Query(pages, failAt, err) == [pages |-> pages, failAt |-> failAt, err |-> err]
OkQuery(pages) == Query(pages, 0, "none")
NoItems == OkQuery(<< <<>> >>)
Failing(err) == Query(<< <<>> >>, 1, err)

\* for page in paginator.paginate(): the pages the loop body sees before the
\* fetch that raises
PagesRead(q) == IF q.failAt = 0 THEN q.pages ELSE SubSeq(q.pages, 1, q.failAt - 1)
Raises(q) == q.failAt # 0

\* The behaviours of one region that the scans are run against.
RegionCases == {"ok", "empty", "partial", "allfail", "noclient"}

EC2Data(case) ==
    [client |-> case # "noclient",
     instances |->
        CASE case = "ok" -> OkQuery(<< <<Rec("i-1"), Rec("i-2")>> >>)
          [] case = "partial" -> Query(<< <<Rec("i-1")>>, <<Rec("i-2")>> >>, 2, "ClientError")
          [] case = "allfail" -> Failing("Other")
          [] OTHER -> NoItems,
     volumes |-> IF case = "allfail" THEN Failing("Other") ELSE NoItems,
     orphan_volumes |->
        CASE case \in {"ok", "partial"} -> OkQuery(<< <<Rec("vol-1")>> >>)
          [] case = "allfail" -> Failing("Other")
          [] OTHER -> NoItems,
     snapshots |-> IF case = "allfail" THEN Failing("Other") ELSE NoItems,
     addresses |-> IF case = "allfail" THEN Failing("Other") ELSE NoItems]

ResourceInfo(service, id, region) ==
    [service |-> service, resource_id |-> id, region |-> region]

\* The body shared by _scan_instances, _scan_volumes, _scan_orphan_volumes and
\* _scan_snapshots: findings is filled page by page inside the try, the except
\* clause only logs, and `return findings` follows it.
ScanPaginatedMutEmptyOnError(q, service, region) ==
    IF Raises(q) THEN <<>>
    ELSE LET recs == Flatten(PagesRead(q))
         IN [i \in DOMAIN recs |-> ResourceInfo(service, recs[i].id, region)]

ScanPaginated(q, service, region) ==
    LET recs == Flatten(PagesRead(q))
    IN [i \in DOMAIN recs |-> ResourceInfo(service, recs[i].id, region)]

\* _scan_eips: one describe_addresses call, response.get("Addresses", [])
ScanEips(q, region) ==
    LET recs == IF Raises(q) THEN <<>> ELSE q.pages[1]
    IN [i \in DOMAIN recs |-> ResourceInfo("Elastic IP", recs[i].id, region)]

\* EC2RegionCollector.collect: [raised, findings, logs]
EC2Collect(region, case) ==
    LET d == EC2Data(case) IN
    IF ~d.client
    THEN [raised |-> FALSE, findings |-> <<>>,
          logs |-> {[event |-> "client_failed", region |-> region]}]
    ELSE [raised |-> FALSE,
          findings |-> ScanPaginated(d.instances, "EC2", region)
                       \o ScanPaginated(d.volumes, "EBS Volume", region)
                       \o ScanPaginated(d.orphan_volumes, "Orphan Volume", region)
                       \o ScanPaginated(d.snapshots, "Snapshot", region)
                       \o ScanEips(d.addresses, region),
          logs |-> {[event |-> "scan_error", region |-> region] :
                       q \in {x \in {d.instances, d.volumes, d.orphan_volumes,
                                     d.snapshots, d.addresses} : Raises(x)}}]

----------------------------------------------------------------------------
(* NAT gateways *)

NATData(case) ==
    [client |-> case # "noclient",
     gateways |->
        CASE case = "ok" -> OkQuery(<< <<Rec("nat-1"), Rec("nat-2")>> >>)
          [] case = "partial" -> OkQuery(<< <<Rec("nat-1")>>, <<Rec("nat-2")>> >>)
          [] case = "allfail" -> Failing("Other")
          [] OTHER -> NoItems]

NATGatewayInfo(id, region) ==
    [service |-> "NAT Gateway", resource_id |-> id, region |-> region]

\* _scan_nat_gateways: one describe_nat_gateways call (the NextToken of the
\* response is not looked at: what the provider holds on later pages is not
\* fetched), the whole body in a try whose except logs; findings is returned
\* after it.
ScanNatGateways(q, region) ==
    LET recs == IF Raises(q) THEN <<>> ELSE q.pages[1]
    IN [i \in DOMAIN recs |-> NATGatewayInfo(recs[i].id, region)]

\* NATGatewayCollector.collect
NATCollect(region, case) ==
    LET d == NATData(case) IN
    IF ~d.client
    THEN [raised |-> FALSE, findings |-> <<>>,
          logs |-> {[event |-> "client_failed", region |-> region]}]
    ELSE [raised |-> FALSE,
          findings |-> ScanNatGateways(d.gateways, region),
          logs |-> IF Raises(d.gateways)
                   THEN {[event |-> "scan_error", region |-> region]} ELSE {}]

----------------------------------------------------------------------------
(* KMS keys *)

Key(id, describe, manager, usage, origin, spec, rotation) ==
    [KeyId |-> id, describe |-> describe, KeyManager |-> manager, KeyUsage |-> usage,
     Origin |-> origin, KeySpec |-> spec, rotation |-> rotation]

\* a key spec is its name split at each "_": "RSA_2048" is <<"RSA", "2048">>
SYMMETRIC_DEFAULT == <<"SYMMETRIC", "DEFAULT">>

UNKNOWN_SPEC == <<"UNKNOWN">>

KeySpecs ==
    {SYMMETRIC_DEFAULT, <<"RSA", "2048">>, <<"ECC", "NIST", "P256">>, <<"HMAC", "256">>,
     <<"SM2">>}

CustomerKey(id, rotation) ==
    Key(id, "ok", "CUSTOMER", "ENCRYPT_DECRYPT", "AWS_KMS", SYMMETRIC_DEFAULT, rotation)

KMSData(case) ==
    [client |-> case # "noclient",
     aliases |-> IF case = "allfail" THEN Failing("ClientError")
                 ELSE OkQuery(<< <<[TargetKeyId |-> "k-1", AliasName |-> "alias/app"]>> >>),
     keys |->
        CASE case = "ok" ->
                OkQuery(<< <<CustomerKey("k-1", "True"),
                             Key("k-2", "ClientError", "CUSTOMER", "ENCRYPT_DECRYPT",
                                 "AWS_KMS", SYMMETRIC_DEFAULT, "False")>> >>)
          [] case = "partial" ->
                Query(<< <<CustomerKey("k-1", "True")>>, <<CustomerKey("k-2", "False")>> >>,
                      2, "ClientError")
          [] case = "allfail" -> Failing("ClientError")
          [] OTHER -> NoItems]

\* describe_key_meta: the metadata; the ERROR record on a ClientError. Any other
\* exception is not caught (DescribeRaises).
DescribeRaises(key) == key.describe \notin {"ok", "ClientError"}

describe_key_meta(key) ==
    IF key.describe = "ok"
    THEN [key_state |-> "Enabled", key_usage |-> key.KeyUsage,
          key_manager |-> key.KeyManager, origin |-> key.Origin,
          key_spec |-> key.KeySpec]
    ELSE [key_state |-> "ERROR", key_usage |-> "UNKNOWN", key_manager |-> "UNKNOWN",
          origin |-> "UNKNOWN", key_spec |-> UNKNOWN_SPEC]

\* asymmetric_prefixes = ("RSA_", "ECC_", "HMAC_"): a name and the "_" after it
asymmetric_prefixes == {<<"RSA">>, <<"ECC">>, <<"HMAC">>}

\* key_spec.startswith(prefixes): the tokens of some prefix come first and a
\* "_" follows them, hence at least one more token
startswith(key_spec, prefixes) ==
    \E p \in prefixes :
        /\ Len(key_spec) > Len(p)
        /\ SubSeq(key_spec, 1, Len(p)) = p

rotation_applicabilityMutUsageFirst(meta) ==
    CASE meta.key_usage # "ENCRYPT_DECRYPT" -> <<FALSE, "NOT_ENCRYPT_DECRYPT">>
      [] meta.key_manager = "AWS" -> <<FALSE, "AWS_MANAGED">>
      [] meta.origin = "EXTERNAL" -> <<FALSE, "IMPORTED_KEY_MATERIAL">>
      [] startswith(meta.key_spec, asymmetric_prefixes) -> <<FALSE, "ASYMMETRIC_OR_HMAC">>
      [] OTHER -> <<TRUE, "APPLICABLE">>

rotation_applicability(meta) ==
    CASE meta.key_manager = "AWS" -> <<FALSE, "AWS_MANAGED">>
      [] meta.key_usage # "ENCRYPT_DECRYPT" -> <<FALSE, "NOT_ENCRYPT_DECRYPT">>
      [] meta.origin = "EXTERNAL" -> <<FALSE, "IMPORTED_KEY_MATERIAL">>
      [] startswith(meta.key_spec, asymmetric_prefixes) -> <<FALSE, "ASYMMETRIC_OR_HMAC">>
      [] OTHER -> <<TRUE, "APPLICABLE">>

\* get_rotation_status: "True" / "False", "None" on a ClientError. Any other
\* exception is not caught (RotationRaises).
RotationRaises(key) == key.rotation \notin {"True", "False", "ClientError"}

get_rotation_status(key) ==
    IF key.rotation \in {"True", "False"} THEN key.rotation ELSE "None"

\* kms_alias: a dict TargetKeyId -> AliasName, as a set of pairs
kms_alias(q) == {<<a.TargetKeyId, a.AliasName>> : a \in Range(Flatten(q.pages))}

AliasOf(alias_map, key_id) ==
    IF \E p \in alias_map : p[1] = key_id
    THEN (CHOOSE p \in alias_map : p[1] = key_id)[2]
    ELSE "No Alias"

\* the loop body of scan_region for one key raises
KeyRaises(key) ==
    \/ DescribeRaises(key)
    \/ rotation_applicability(describe_key_meta(key))[1] /\ RotationRaises(key)

\* the loop body of scan_region for one key: the KMSFinding appended
KeyFindingMutBareApplicable(reg, alias_map, key) ==
    LET meta == describe_key_meta(key)
        app == rotation_applicability(meta)
        rotation == IF app[1] THEN get_rotation_status(key) ELSE "None"
        reason == CASE rotation = "True" -> "ENABLED"
                    [] rotation = "False" -> "DISABLED"
                    [] OTHER -> app[2]
    IN [region |-> reg, key_id |-> key.KeyId,
        alias |-> AliasOf(alias_map, key.KeyId),
        key_state |-> meta.key_state, key_usage |-> meta.key_usage,
        key_spec |-> meta.key_spec, key_manager |-> meta.key_manager,
        origin |-> meta.origin, rotation_enabled |-> rotation,
        rotation_reason |-> reason]

KeyFinding(reg, alias_map, key) ==
    LET meta == describe_key_meta(key)
        app == rotation_applicability(meta)
        rotation == IF app[1] THEN get_rotation_status(key) ELSE "None"
        reason == IF ~app[1] THEN app[2]
                  ELSE CASE rotation = "True" -> "ENABLED"
                         [] rotation = "False" -> "DISABLED"
                         [] OTHER -> "UNKNOWN_OR_NO_PERMISSION"
    IN [region |-> reg, key_id |-> key.KeyId,
        alias |-> AliasOf(alias_map, key.KeyId),
        key_state |-> meta.key_state, key_usage |-> meta.key_usage,
        key_spec |-> meta.key_spec, key_manager |-> meta.key_manager,
        origin |-> meta.origin, rotation_enabled |-> rotation,
        rotation_reason |-> reason]

\* KMSCollector.scan_region: nothing in it is wrapped, so a failing get_client,
\* list_aliases or list_keys, or a key whose loop body raises, ends the task
\* with the exception
scan_region(reg, case) ==
    LET d == KMSData(case)
        keys == Flatten(d.keys.pages)
    IN IF ~d.client \/ Raises(d.aliases) \/ Raises(d.keys)
          \/ \E i \in DOMAIN keys : KeyRaises(keys[i])
       THEN [raised |-> TRUE, findings |-> <<>>, logs |-> {}]
       ELSE [raised |-> FALSE,
             findings |-> [i \in DOMAIN keys |->
                              KeyFinding(reg, kms_alias(d.aliases), keys[i])],
             logs |-> {}]

----------------------------------------------------------------------------
(* Region resolution *)

\* describe_regions: it raises, or answers the enabled regions of the account
OptInOf(i) == IF i % 2 = 1 THEN "opt-in-not-required" ELSE "opted-in"

RegionListing(n) ==
    [ok |-> TRUE,
     Regions |-> [i \in 1..n |-> [RegionName |-> AllRegions[i], OptInStatus |-> OptInOf(i)]]]

ListingFails == [ok |-> FALSE, Regions |-> <<>>]

Listings == {ListingFails, RegionListing(0), RegionListing(NumRegions)}

Enabled(rs) ==
    SelectSeq(rs, LAMBDA r : r.OptInStatus \in {"opt-in-not-required", "opted-in"})

\* ResourceInventoryManager.get_regions and NATGatewayInventoryManager.get_regions:
\* the except clause answers ["us-east-1"]
get_regions_MutNoFallback(l) ==
    IF ~l.ok THEN [raised |-> TRUE, regions |-> <<>>]
    ELSE [raised |-> FALSE,
          regions |-> [i \in DOMAIN Enabled(l.Regions) |-> Enabled(l.Regions)[i].RegionName]]

get_regions(l) ==
    IF ~l.ok THEN [raised |-> FALSE, regions |-> <<DefaultRegion>>]
    ELSE [raised |-> FALSE,
          regions |-> [i \in DOMAIN Enabled(l.Regions) |-> Enabled(l.Regions)[i].RegionName]]

\* KMSCollector.get_regions: no try, no filter
kms_get_regions(l) ==
    IF ~l.ok THEN [raised |-> TRUE, regions |-> <<>>]
    ELSE [raised |-> FALSE,
          regions |-> [i \in DOMAIN l.Regions |-> l.Regions[i].RegionName]]

\* regions = [target_region] if target_region else self.get_regions()   (EC2, NAT)
\* regions = self.get_regions()                                        (KMS)
Resolve(fam, tgt, l) ==
    IF fam = "KMS" THEN kms_get_regions(l)
    ELSE IF tgt # NoTarget THEN [raised |-> FALSE, regions |-> <<tgt>>]
    ELSE get_regions(l)

----------------------------------------------------------------------------
(* The region task each family submits to the executor *)

TaskOutcome(fam, region, case) ==
    CASE fam = "EC2" -> EC2Collect(region, case)
      [] fam = "NAT" -> NATCollect(region, case)
      [] OTHER -> scan_region(region, case)

\* ResourceInfo.to_dict / NATGatewayInfo.to_dict
to_dict(f) == [service |-> f.service, resource_id |-> f.resource_id, region |-> f.region]

\* all_findings.extend([f.to_dict() for f in result])   (EC2, NAT)
\* all_results.extend(findings)                         (KMS)
ExtendMutAssign(fam, all, result) ==
    IF fam = "KMS" THEN result
    ELSE [i \in DOMAIN result |-> to_dict(result[i])]

Extend(fam, all, result) ==
    IF fam = "KMS" THEN all \o result
    ELSE all \o [i \in DOMAIN result |-> to_dict(result[i])]

----------------------------------------------------------------------------
(* run: the region tasks on the executor, as_completed's loop, the exit of  *)
(* the with block                                                          *)

Finished == {"done", "raised"}
Outstanding == {r \in Range(regions) : task[r] \in {"queued", "running"}}
Running == {r \in RegionNames : task[r] = "running"}

\* the regions a run reads provider data of
Scanned(fam, tgt, l) == Range(Resolve(fam, tgt, l).regions)

PoolInit ==
    /\ family \in {"EC2", "NAT", "KMS"}
    /\ target \in {NoTarget, AllRegions[2]}
    /\ family = "KMS" => target = NoTarget
    /\ listing \in Listings
    /\ target # NoTarget => listing = RegionListing(NumRegions)
    /\ prov \in [RegionNames -> RegionCases]
    /\ \A r \in RegionNames \ Scanned(family, target, listing) : prov[r] = "empty"
    /\ runPc = "start"
    /\ regions = <<>>
    /\ queue = <<>>
    /\ task = [r \in RegionNames |-> "none"]
    /\ runs = [r \in RegionNames |-> 0]
    /\ handled = [r \in RegionNames |-> 0]
    /\ all_findings = <<>>
    /\ log = {}
    /\ exc = "none"

\* how run ends once exception e has left the with block or get_regions:
\* EC2 / NAT have no handler in run; KMSCollector.run has
\* `except KeyboardInterrupt` and `except Exception`, both `return all_results`
RunEnd(fam, e) == IF fam = "KMS" \/ e = "none" THEN "returned" ELSE "raised"

\* regions are resolved and one task per region is submitted. In KMSCollector.run
\* the call is inside the outer try: a raising get_regions is logged by
\* `except Exception` and all_results (still empty) is returned.
Submit ==
    /\ runPc = "start"
    /\ LET res == Resolve(family, target, listing) IN
       IF res.raised
       THEN /\ runPc' = RunEnd(family, "Exception")
            /\ exc' = "Exception"
            /\ log' = IF family = "KMS"
                      THEN log \cup {[event |-> "run_error", region |-> "-"]} ELSE log
            /\ UNCHANGED <<regions, queue, task>>
       ELSE /\ regions' = res.regions
            /\ queue' = res.regions
            /\ task' = [r \in RegionNames |->
                          IF r \in Range(res.regions) THEN "queued" ELSE "none"]
            /\ runPc' = "loop"
            /\ exc' = exc
            /\ log' = IF family # "KMS" /\ target = NoTarget /\ ~listing.ok
                      THEN log \cup {[event |-> "regions_fallback", region |-> "-"]}
                      ELSE log
    /\ UNCHANGED <<taskVars, unitVars, family, target, listing, prov, runs, handled, all_findings>>

\* ThreadPoolExecutor(max_workers=...): a work item leaves the queue only when
\* one of at most max_workers worker threads is free to run it
WorkerFreeMutUnbounded(running) == TRUE

WorkerFree(running) == Cardinality(running) < MaxWorkers

StartTask ==
    /\ runPc \in {"loop", "shutdown"}
    /\ queue # <<>>
    /\ WorkerFree(Running)
    /\ task' = [task EXCEPT ![Head(queue)] = "running"]
    /\ runs' = [runs EXCEPT ![Head(queue)] = @ + 1]
    /\ queue' = Tail(queue)
    /\ UNCHANGED <<taskVars, unitVars, family, target, listing, prov, runPc, regions, handled,
                   all_findings, log, exc>>

\* the task of region r ends: collect / scan_region returned or raised
FinishTask(r) ==
    /\ task[r] = "running"
    /\ LET out == TaskOutcome(family, r, prov[r]) IN
        /\ task' = [task EXCEPT ![r] = IF out.raised THEN "raised" ELSE "done"]
        /\ log' = log \cup out.logs
    /\ UNCHANGED <<taskVars, unitVars, family, target, listing, prov, runPc, regions, queue, runs,
                   handled, all_findings, exc>>

\* where the loop goes after future.result() raised: the except clauses log
\* (and `continue`), so the loop goes on with the next completed future
AfterFailedFutureMutAbort == "shutdown"

AfterFailedFuture == "loop"

\* logger.error in the except clause of the loop
RegionErrorLoggedMutSilent(l, r) == l

RegionErrorLogged(l, r) == l \cup {[event |-> "region_error", region |-> r]}

\* as_completed yields each future once, when it is done
Yielded(r) == handled[r] > 0

\* one iteration of `for future in as_completed(future_to_region)`
Merge(r) ==
    /\ runPc = "loop"
    /\ r \in Range(regions)
    /\ task[r] \in Finished
    /\ ~Yielded(r)
    /\ handled' = [handled EXCEPT ![r] = @ + 1]
    /\ IF task[r] = "done"
       THEN /\ all_findings' =
                  Extend(family, all_findings, TaskOutcome(family, r, prov[r]).findings)
            /\ UNCHANGED <<log, runPc, exc>>
       ELSE /\ log' = RegionErrorLogged(log, r)
            /\ runPc' = AfterFailedFuture
            /\ exc' = IF AfterFailedFuture = "loop" THEN exc ELSE "Exception"
            /\ UNCHANGED all_findings
    /\ UNCHANGED <<taskVars, unitVars, family, target, listing, prov, regions, queue, task, runs>>

\* KeyboardInterrupt reaches the main thread inside the with block while tasks
\* are outstanding: no except clause of the loop catches it (it is no
\* Exception), so the with block is left
Interrupt ==
    /\ runPc = "loop"
    /\ Outstanding # {}
    /\ exc' = "KeyboardInterrupt"
    /\ runPc' = "shutdown"
    /\ UNCHANGED <<taskVars, unitVars, family, target, listing, prov, regions, queue, task, runs,
                   handled, all_findings, log>>

\* ThreadPoolExecutor.__exit__ is shutdown(wait=True): the with block is left
\* only when every submitted task has run to its end
ShutdownWaitsMutNoWait == TRUE

ShutdownWaits == Outstanding = {}

\* the loop is over (every future was yielded) and run returns
Return ==
    /\ runPc = "loop"
    /\ \A r \in Range(regions) : Yielded(r)
    /\ ShutdownWaits
    /\ runPc' = RunEnd(family, exc)
    /\ UNCHANGED <<taskVars, unitVars, family, target, listing, prov, regions, queue, task, runs,
                   handled, all_findings, log, exc>>

\* the with block is left by an exception: shutdown(wait=True), then the
\* exception goes on to run's handlers, or to the caller
Unwind ==
    /\ runPc = "shutdown"
    /\ ShutdownWaits
    /\ runPc' = RunEnd(family, exc)
    /\ log' = IF family = "KMS"
              THEN log \cup {[event |-> IF exc = "KeyboardInterrupt"
                                        THEN "stopped" ELSE "run_error",
                              region |-> "-"]}
              ELSE log
    /\ UNCHANGED <<taskVars, unitVars, family, target, listing, prov, regions, queue, task, runs,
                   handled, all_findings, exc>>

----------------------------------------------------------------------------
(* One region's task, sub-scan by sub-scan *)

NotRun == Query(<<>>, 0, "notrun")

\* what the provider holds for a paginated query: NumPages pages of one record;
\* the record of page p is named after the query and p. A snapshot names its
\* source: the manual ones the instance / cluster of the same page, the
\* automated ones that of the next page (the last one a source that is gone).
Pages(sub) ==
    [p \in 1..NumPages |->
        << CASE sub = "snap_manual" -> [id |-> <<sub, p>>, source |-> <<"db_instances", p>>]
             [] sub = "snap_automated" -> [id |-> <<sub, p>>, source |-> <<"db_instances", p + 1>>]
             [] sub = "csnap_manual" -> [id |-> <<sub, p>>, source |-> <<"db_clusters", p>>]
             [] sub = "csnap_automated" -> [id |-> <<sub, p>>, source |-> <<"db_clusters", p + 1>>]
             [] OTHER -> Rec(<<sub, p>>) >>]

\* snapshot.get('DBInstanceIdentifier') of a snapshot record that has no source
\* identifier: None
NoSource == <<"None", 0>>

SnapshotQueries == {"snap_manual", "snap_automated", "csnap_manual", "csnap_automated"}

\* the same pages, the first record without its source identifier
NoSourcePages(sub) ==
    [Pages(sub) EXCEPT ![1] = << [id |-> <<sub, 1>>, source |-> NoSource] >>]

\* the answers to a query: every page, or an exception at the fetch of page k;
\* for the snapshot queries also every page with a record that has no source.
\* describe_addresses is not paginated: one answer, or an exception.
QueryOptions(sub) ==
    IF sub = "addresses"
    THEN {OkQuery(SubSeq(Pages(sub), 1, 1))}
         \cup {Query(SubSeq(Pages(sub), 1, 1), 1, e) : e \in {"ClientError", "Other"}}
    ELSE {OkQuery(Pages(sub))}
         \cup {Query(Pages(sub), k, e) : k \in 1..NumPages, e \in {"ClientError", "Other"}}
         \cup (IF sub \in SnapshotQueries THEN {OkQuery(NoSourcePages(sub))} ELSE {})

\* the log line of the snapshot loops formats the source with `{instance_id:30}`
\* after the item was appended: for None this raises TypeError
RecordRaises(q) ==
    \E i \in DOMAIN Flatten(PagesRead(q)) : Flatten(PagesRead(q))[i].source = NoSource

\* the records the loop body of a sub-scan is run for: those of the pages read,
\* up to and including the first one whose log line raises
Processed(q) ==
    LET recs == Flatten(PagesRead(q)) IN
    IF RecordRaises(q)
    THEN SubSeq(recs, 1, CHOOSE i \in DOMAIN recs :
                            /\ recs[i].source = NoSource
                            /\ \A j \in 1..(i - 1) : recs[j].source # NoSource)
    ELSE recs

\* `except ClientError` lets every other exception through
Propagates(q) == RecordRaises(q) \/ (Raises(q) /\ q.err # "ClientError")

EC2SubScans == <<"instances", "volumes", "orphan_volumes", "snapshots", "addresses">>
RDSQueries == <<"db_instances", "db_clusters", "snap_manual", "snap_automated",
                "csnap_manual", "csnap_automated", "reserved", "proxies">>

EC2Service(sub) ==
    CASE sub = "instances" -> "EC2"
      [] sub = "volumes" -> "EBS Volume"
      [] sub = "orphan_volumes" -> "Orphan Volume"
      [] sub = "snapshots" -> "Snapshot"
      [] OTHER -> "Elastic IP"

RDSType(sub) ==
    CASE sub = "db_instances" -> "DB Instance"
      [] sub = "db_clusters" -> "Aurora Cluster"
      [] sub = "snap_manual" -> "Snapshot (manual)"
      [] sub = "snap_automated" -> "Snapshot (automated)"
      [] sub = "csnap_manual" -> "Cluster Snapshot (manual)"
      [] sub = "csnap_automated" -> "Cluster Snapshot (automated)"
      [] sub = "reserved" -> "Reserved Instance"
      [] OTHER -> "RDS Proxy"

\* AllocatedStorage of a record the provider holds, in GB: the record of page
\* p has 10 * p
AllocatedStorage(rec) == 10 * rec.id[2]

\* the sub-scans that pass size_gb=float(...); the others leave the default 0.0
SizedQueries == {"db_instances", "db_clusters"} \cup SnapshotQueries

size_gb(rec, sub) == IF sub \in SizedQueries THEN AllocatedStorage(rec) ELSE 0

CostItem(type, id, size, orphan) ==
    [resource_type |-> type, resource_id |-> id, size_gb |-> size, is_orphan |-> orphan]

Ids(recs) == [i \in DOMAIN recs |-> recs[i].id]

TaskIdle ==
    /\ tFamily = "idle"
    /\ config = [include_clusters |-> TRUE, include_snapshots |-> TRUE,
                 include_reserved |-> TRUE, include_proxies |-> TRUE]
    /\ tPc = "-"
    /\ tState = "returned"
    /\ findings = <<>>
    /\ cost_items = <<>>
    /\ active_instances = {}
    /\ active_clusters = {}
    /\ used = [q \in Range(EC2SubScans) \cup Range(RDSQueries) |-> NotRun]
    /\ audits = 0

TaskInit ==
    /\ tFamily \in {"EC2", "RDS"}
    /\ config \in [{"include_clusters", "include_snapshots", "include_reserved",
                    "include_proxies"} -> BOOLEAN]
    /\ tFamily = "EC2" => \A k \in DOMAIN config : config[k]
    /\ tPc = IF tFamily = "EC2" THEN "client" ELSE "db_instances"
    /\ tState = "running"
    /\ findings = <<>>
    /\ cost_items = <<>>
    /\ active_instances = {}
    /\ active_clusters = {}
    /\ used = [q \in Range(EC2SubScans) \cup Range(RDSQueries) |-> NotRun]
    /\ audits = IF tFamily = "RDS" THEN 1 ELSE 0

(* EC2RegionCollector.collect *)

\* get_client raises: logged, `return []`
CollectClient ==
    /\ tFamily = "EC2" /\ tState = "running" /\ tPc = "client"
    /\ \E ok \in BOOLEAN :
          IF ok THEN tPc' = "instances" /\ tState' = tState
          ELSE tPc' = "-" /\ tState' = "returned"
    /\ UNCHANGED <<poolVars, unitVars, audits, tFamily, config, findings, cost_items, active_instances,
                   active_clusters, used>>

NextEC2MutOrphansFirst(sub) ==
    CASE sub = "instances" -> "orphan_volumes"
      [] sub = "orphan_volumes" -> "volumes"
      [] sub = "volumes" -> "snapshots"
      [] sub = "snapshots" -> "addresses"
      [] OTHER -> "-"

NextEC2(sub) ==
    CASE sub = "instances" -> "volumes"
      [] sub = "volumes" -> "orphan_volumes"
      [] sub = "orphan_volumes" -> "snapshots"
      [] sub = "snapshots" -> "addresses"
      [] OTHER -> "-"

\* findings.extend(self._scan_...(ec2_client, region)), then `return findings`
\* after the last one
CollectSubScan(sub) ==
    /\ tFamily = "EC2" /\ tState = "running" /\ tPc = sub
    /\ \E q \in QueryOptions(sub) :
        /\ used' = [used EXCEPT ![sub] = q]
        /\ findings' = findings \o
              (IF sub = "addresses" THEN ScanEips(q, DefaultRegion)
               ELSE ScanPaginated(q, EC2Service(sub), DefaultRegion))
    /\ tPc' = NextEC2(sub)
    /\ tState' = IF sub = "addresses" THEN "returned" ELSE "running"
    /\ UNCHANGED <<poolVars, unitVars, audits, tFamily, config, cost_items, active_instances, active_clusters>>

(* RDSCostAuditor.run_audit *)

\* the body of a sub-scan's try: one CostItem per record of the pages read,
\* appended to self.cost_items as the pages come
ScanItems(q, sub) ==
    LET recs == Flatten(PagesRead(q))
    IN [i \in DOMAIN recs |-> CostItem(RDSType(sub), recs[i].id, size_gb(recs[i], sub), FALSE)]

\* the same for snapshots: is_orphan = source not in safe
ScanSnapshotItemsMutNeverOrphan(q, sub, safe) ==
    LET recs == Processed(q)
    IN [i \in DOMAIN recs |-> CostItem(RDSType(sub), recs[i].id, size_gb(recs[i], sub), FALSE)]

ScanSnapshotItems(q, sub, safe) ==
    LET recs == Processed(q)
    IN [i \in DOMAIN recs |-> CostItem(RDSType(sub), recs[i].id, size_gb(recs[i], sub),
                                       recs[i].source \notin safe)]

\* an exception that `except ClientError` does not catch leaves run_audit
AfterSubScan(q, next) ==
    IF Propagates(q) THEN tPc' = "-" /\ tState' = "raised"
    ELSE tPc' = next /\ tState' = "running"

scan_db_instances ==
    /\ tFamily = "RDS" /\ tState = "running" /\ tPc = "db_instances"
    /\ \E q \in QueryOptions("db_instances") :
        /\ used' = [used EXCEPT !["db_instances"] = q]
        /\ active_instances' =
              active_instances \cup Range(Ids(Flatten(PagesRead(q))))
        /\ cost_items' = cost_items \o ScanItems(q, "db_instances")
        /\ AfterSubScan(q, "db_clusters")
    /\ UNCHANGED <<poolVars, unitVars, audits, tFamily, config, findings, active_clusters>>

scan_db_clusters ==
    /\ tFamily = "RDS" /\ tState = "running" /\ tPc = "db_clusters"
    /\ IF ~config.include_clusters
       THEN /\ tPc' = "db_snapshots"
            /\ UNCHANGED <<used, active_clusters, cost_items, tState>>
       ELSE \E q \in QueryOptions("db_clusters") :
            /\ used' = [used EXCEPT !["db_clusters"] = q]
            /\ active_clusters' =
                  active_clusters \cup Range(Ids(Flatten(PagesRead(q))))
            /\ cost_items' = cost_items \o ScanItems(q, "db_clusters")
            /\ AfterSubScan(q, "db_snapshots")
    /\ UNCHANGED <<poolVars, unitVars, audits, tFamily, config, findings, active_instances>>

\* scan_snapshots and scan_cluster_snapshots: for snap_type in ['manual',
\* 'automated'], each in its own try; a propagating exception of the manual
\* query leaves the function before the automated one is issued
TwoTypes(qm, qa, subm, suba, safe, next) ==
    IF Propagates(qm)
    THEN /\ used' = [used EXCEPT ![subm] = qm]
         /\ cost_items' = cost_items \o ScanSnapshotItems(qm, subm, safe)
         /\ tPc' = "-" /\ tState' = "raised"
    ELSE /\ used' = [used EXCEPT ![subm] = qm, ![suba] = qa]
         /\ cost_items' = cost_items \o ScanSnapshotItems(qm, subm, safe)
                                     \o ScanSnapshotItems(qa, suba, safe)
         /\ AfterSubScan(qa, next)

\* safe_list = self.active_instances.union(self.active_clusters)
safe_listMutInstancesOnly == active_instances

safe_list == active_instances \cup active_clusters

scan_snapshots ==
    /\ tFamily = "RDS" /\ tState = "running" /\ tPc = "db_snapshots"
    /\ IF ~config.include_snapshots
       THEN /\ tPc' = "cluster_snapshots"
            /\ UNCHANGED <<used, cost_items, tState>>
       ELSE \E qm \in QueryOptions("snap_manual"), qa \in QueryOptions("snap_automated") :
               TwoTypes(qm, qa, "snap_manual", "snap_automated",
                        safe_list, "cluster_snapshots")
    /\ UNCHANGED <<poolVars, unitVars, audits, tFamily, config, findings, active_instances, active_clusters>>

scan_cluster_snapshotsMutSnapshotsOnly ==
    /\ tFamily = "RDS" /\ tState = "running" /\ tPc = "cluster_snapshots"
    /\ IF ~config.include_snapshots
       THEN /\ tPc' = "reserved"
            /\ UNCHANGED <<used, cost_items, tState>>
       ELSE \E qm \in QueryOptions("csnap_manual"), qa \in QueryOptions("csnap_automated") :
               TwoTypes(qm, qa, "csnap_manual", "csnap_automated",
                        active_clusters, "reserved")
    /\ UNCHANGED <<poolVars, unitVars, audits, tFamily, config, findings, active_instances, active_clusters>>

scan_cluster_snapshots ==
    /\ tFamily = "RDS" /\ tState = "running" /\ tPc = "cluster_snapshots"
    /\ IF ~config.include_clusters \/ ~config.include_snapshots
       THEN /\ tPc' = "reserved"
            /\ UNCHANGED <<used, cost_items, tState>>
       ELSE \E qm \in QueryOptions("csnap_manual"), qa \in QueryOptions("csnap_automated") :
               TwoTypes(qm, qa, "csnap_manual", "csnap_automated",
                        active_clusters, "reserved")
    /\ UNCHANGED <<poolVars, unitVars, audits, tFamily, config, findings, active_instances, active_clusters>>

scan_reserved_instances ==
    /\ tFamily = "RDS" /\ tState = "running" /\ tPc = "reserved"
    /\ IF ~config.include_reserved
       THEN /\ tPc' = "proxies"
            /\ UNCHANGED <<used, cost_items, tState>>
       ELSE \E q \in QueryOptions("reserved") :
            /\ used' = [used EXCEPT !["reserved"] = q]
            /\ cost_items' = cost_items \o ScanItems(q, "reserved")
            /\ AfterSubScan(q, "proxies")
    /\ UNCHANGED <<poolVars, unitVars, audits, tFamily, config, findings, active_instances, active_clusters>>

scan_db_proxies ==
    /\ tFamily = "RDS" /\ tState = "running" /\ tPc = "proxies"
    /\ IF ~config.include_proxies
       THEN /\ tPc' = "summary"
            /\ UNCHANGED <<used, cost_items, tState>>
       ELSE \E q \in QueryOptions("proxies") :
            /\ used' = [used EXCEPT !["proxies"] = q]
            /\ cost_items' = cost_items \o ScanItems(q, "proxies")
            /\ AfterSubScan(q, "summary")
    /\ UNCHANGED <<poolVars, unitVars, audits, tFamily, config, findings, active_instances, active_clusters>>

\* the group keys of the reports, in the order of Python's string comparison
LexOrder ==
    <<"Aurora Cluster", "Cluster Snapshot (automated)", "Cluster Snapshot (manual)",
      "DB Instance", "EBS Volume", "EC2", "Elastic IP", "Orphan Volume", "RDS Proxy",
      "Reserved Instance", "Snapshot", "Snapshot (automated)", "Snapshot (manual)">>

\* sorted(keys)
sorted(keys) == SelectSeq(LexOrder, LAMBDA k : k \in keys)

\* by_type[resource_type]
ByType(items, type) == SelectSeq(items, LAMBDA it : it.resource_type = type)

Sizes(items) == [i \in DOMAIN items |-> items[i].size_gb]

\* the block logged for one resource type: count, total_size, orphan_count,
\* orphan_size
TypeRowMutOrphanAll(items, type) ==
    LET its == ByType(items, type)
    IN [Resource_Type |-> type,
        Count |-> Len(its),
        Total_Size |-> SumSeq(Sizes(its)),
        Orphan_Count |-> Len(SelectSeq(its, LAMBDA it : it.is_orphan)),
        Orphan_Size |-> SumSeq(Sizes(its))]

TypeRow(items, type) ==
    LET its == ByType(items, type)
        orphans == SelectSeq(its, LAMBDA it : it.is_orphan)
    IN [Resource_Type |-> type,
        Count |-> Len(its),
        Total_Size |-> SumSeq(Sizes(its)),
        Orphan_Count |-> Len(orphans),
        Orphan_Size |-> SumSeq(Sizes(orphans))]

\* what generate_summary_report logs of self.cost_items: a block per resource
\* type in sorted order, then the totals
SummaryReport(items) ==
    LET types == {items[i].resource_type : i \in DOMAIN items}
        orphans == SelectSeq(items, LAMBDA it : it.is_orphan)
    IN [shown |-> "report",
        rows |-> {TypeRow(items, t) : t \in types},
        order |-> sorted(types),
        total |-> Len(items),
        total_storage |-> SumSeq(Sizes(items)),
        orphan_count_total |-> Len(orphans),
        orphan_storage |-> SumSeq(Sizes(orphans))]

\* generate_summary_report logs the report; run_audit returns after it
generate_summary_report ==
    /\ tFamily = "RDS" /\ tState = "running" /\ tPc = "summary"
    /\ tPc' = "-"
    /\ tState' = "returned"
    /\ summary' = SummaryReport(cost_items)
    /\ UNCHANGED <<poolVars, gateways, natPc, natFindings, kmsKey, kmsPc, kmsFindings, queried,
                   sessVars, audits, tFamily, config, findings, cost_items, active_instances,
                   active_clusters, used>>

\* run_audit is called again on the same auditor object: nothing of
\* cost_items, active_instances and active_clusters is reset (they are set in
\* __init__ only)
RunAuditAgain ==
    /\ tFamily = "RDS" /\ tState \in {"returned", "raised"}
    /\ audits < MaxAudits
    /\ audits' = audits + 1
    /\ tPc' = "db_instances"
    /\ tState' = "running"
    /\ used' = [q \in DOMAIN used |-> NotRun]
    /\ UNCHANGED <<poolVars, unitVars, tFamily, config, findings, cost_items, active_instances,
                   active_clusters>>

----------------------------------------------------------------------------
(* One call of _scan_nat_gateways: the traffic and the zombie flag of each   *)
(* gateway. The Sum of a datapoint is a whole number of MiB (2^20 bytes); a  *)
(* traffic_gb value is held in hundredths of a GB, the precision round(_, 2) *)
(* leaves.                                                                   *)

MiBPerGB == 1024
HundredthsPerGB == 100
SecondsPerHour == 3600
ZombieMinHours == 24
ZombieMaxGB == 1

\* nat_gw.get('CreateTime') is None
NoCreateTime == -1

\* the answer to one get_metric_statistics call: it raises, or Datapoints
Metric(ok, datapoints) == [ok |-> ok, Datapoints |-> datapoints]

MetricOptions ==
    {Metric(FALSE, <<>>), Metric(TRUE, <<>>), Metric(TRUE, <<307>>),
     Metric(TRUE, <<510, 510>>), Metric(TRUE, <<1024>>)}

\* utcnow() - CreateTime, in seconds: 10 h, 24 h, 24 h and a second, 48 h
AgeOptions == {NoCreateTime, 36000, 86400, 86401, 172800}

GatewayIds == <<"nat-1", "nat-2">>

Gateway(id, age, bytesIn, bytesOut) ==
    [NatGatewayId |-> id, age |-> age,
     BytesInFromSource |-> bytesIn, BytesOutToDestination |-> bytesOut]

\* round(n / d, 0) as Python rounds: to the nearest, a tie to the even one
RoundHalfEven(n, d) ==
    LET q == n \div d
        r == n % d
    IN CASE 2 * r > d -> q + 1
         [] 2 * r < d -> q
         [] OTHER -> IF q % 2 = 0 THEN q ELSE q + 1

\* what one metric adds to total_bytes: the inner try logs a failure and adds
\* nothing
MetricBytes(m) == IF m.ok THEN SumSeq(m.Datapoints) ELSE 0

\* _get_traffic_metrics: round(total_bytes / (1024 ** 3), 2)
get_traffic_metricsMutOuterTry(g) ==
    IF g.BytesInFromSource.ok /\ g.BytesOutToDestination.ok
    THEN RoundHalfEven(
            (MetricBytes(g.BytesInFromSource) + MetricBytes(g.BytesOutToDestination))
                * HundredthsPerGB, MiBPerGB)
    ELSE 0

get_traffic_metrics(g) ==
    RoundHalfEven(
        (MetricBytes(g.BytesInFromSource) + MetricBytes(g.BytesOutToDestination))
            * HundredthsPerGB, MiBPerGB)

\* is_zombie = running_hours > 24 and traffic_gb < 1.0, False without CreateTime
IsZombie(g, traffic_gb) ==
    /\ g.age # NoCreateTime
    /\ g.age > ZombieMinHours * SecondsPerHour
    /\ traffic_gb < ZombieMaxGB * HundredthsPerGB

NatFinding(g) ==
    [service |-> "NAT Gateway", resource_id |-> g.NatGatewayId,
     traffic_gb |-> get_traffic_metrics(g),
     is_zombie |-> IsZombie(g, get_traffic_metrics(g))]

NatInit ==
    /\ gateways \in [DOMAIN GatewayIds -> [NatGatewayId : Range(GatewayIds), age : AgeOptions,
                                            BytesInFromSource : MetricOptions,
                                            BytesOutToDestination : MetricOptions]]
    /\ \A i \in DOMAIN GatewayIds : gateways[i].NatGatewayId = GatewayIds[i]
    /\ natPc = 1
    /\ natFindings = <<>>

\* one iteration of `for nat_gw in response.get('NatGateways', [])`
ScanNatGateway ==
    /\ natPc \in DOMAIN gateways
    /\ natFindings' = Append(natFindings, NatFinding(gateways[natPc]))
    /\ natPc' = natPc + 1
    /\ UNCHANGED <<poolVars, taskVars, gateways, kmsKey, kmsPc, kmsFindings, queried, summary,
                   sessVars>>

----------------------------------------------------------------------------
(* The loop body of scan_region for one key *)

\* what describe_key and get_key_rotation_status answer for the key: any
\* metadata the call can return, or an error
KmsInit ==
    /\ kmsKey \in [KeyId : {"k-1"}, describe : {"ok", "ClientError", "Other"},
                    KeyManager : {"AWS", "CUSTOMER"},
                    KeyUsage : {"ENCRYPT_DECRYPT", "SIGN_VERIFY", "GENERATE_VERIFY_MAC"},
                    Origin : {"AWS_KMS", "EXTERNAL"}, KeySpec : KeySpecs,
                    rotation : {"True", "False", "ClientError", "Other"}]
    /\ kmsPc = "describe"
    /\ kmsFindings = <<>>
    /\ queried = {}

\* meta = describe_key_meta(...); applicable, reason = rotation_applicability(meta);
\* a key rotation does not apply to is appended at once
DescribeKey ==
    /\ kmsPc = "describe"
    /\ IF DescribeRaises(kmsKey)
       THEN kmsPc' = "raised" /\ UNCHANGED kmsFindings
       ELSE IF rotation_applicability(describe_key_meta(kmsKey))[1]
            THEN kmsPc' = "rotation" /\ UNCHANGED kmsFindings
            ELSE /\ kmsFindings' = Append(kmsFindings, KeyFinding(AllRegions[1], {}, kmsKey))
                 /\ kmsPc' = "appended"
    /\ UNCHANGED <<poolVars, taskVars, gateways, natPc, natFindings, kmsKey, queried, summary,
                   sessVars>>

\* rotation = get_rotation_status(kms, key_id), then the append
GetRotationStatus ==
    /\ kmsPc = "rotation"
    /\ queried' = queried \cup {kmsKey.KeyId}
    /\ IF RotationRaises(kmsKey)
       THEN kmsPc' = "raised" /\ UNCHANGED kmsFindings
       ELSE /\ kmsFindings' = Append(kmsFindings, KeyFinding(AllRegions[1], {}, kmsKey))
            /\ kmsPc' = "appended"
    /\ UNCHANGED <<poolVars, taskVars, gateways, natPc, natFindings, kmsKey, summary,
                   sessVars>>

KmsIdle ==
    /\ kmsKey = CustomerKey("k-0", "True")
    /\ kmsPc = "idle"
    /\ kmsFindings = <<>>
    /\ queried = {}

NatIdle ==
    /\ gateways = <<>>
    /\ natPc = 0
    /\ natFindings = <<>>

----------------------------------------------------------------------------
(* ResourceInventoryManager.display_results on the findings of a run for one *)
(* region                                                                    *)

NotDisplayed == [shown |-> "no", rows |-> {}, total |-> 0]

\* services[service].append(finding): the findings of one service
ItemsOf(fs, service) == SelectSeq(fs, LAMBDA f : f.service = service)

\* summary_table: field_names ["Resource Type", "Count"], one row per key of
\* services (printed in the order of the names)
SummaryRowsMutByStatus(fs) ==
    {[Resource_Type |-> IF fs[i].service = "Orphan Volume" THEN "EBS Volume"
                        ELSE fs[i].service,
      Count |-> Len(SelectSeq(fs, LAMBDA f :
                      f.service = fs[i].service
                      \/ {f.service, fs[i].service} = {"Orphan Volume", "EBS Volume"}))] :
        i \in DOMAIN fs}

SummaryRows(fs) ==
    {[Resource_Type |-> fs[i].service, Count |-> Len(ItemsOf(fs, fs[i].service))] :
        i \in DOMAIN fs}

\* the keys of the dict services, in the order they were first inserted
RECURSIVE FirstSeen(_, _)
FirstSeen(fs, seen) ==
    IF fs = <<>> THEN <<>>
    ELSE IF Head(fs).service \in seen THEN FirstSeen(Tail(fs), seen)
    ELSE <<Head(fs).service>> \o FirstSeen(Tail(fs), seen \cup {Head(fs).service})

\* display_results(findings). No findings: a message and `return`; else one
\* table per service in the order of services.items(), the summary rows in
\* the order of sorted(services.items()) and "Total Resources: len(findings)"
Displayed(fs) ==
    IF fs = <<>>
    THEN [shown |-> "No resources found!", rows |-> {}, total |-> 0,
          sections |-> <<>>, order |-> <<>>]
    ELSE [shown |-> "tables", rows |-> SummaryRows(fs), total |-> Len(fs),
          sections |-> FirstSeen(fs, {}),
          order |-> sorted({fs[i].service : i \in DOMAIN fs})]

\* display_results on the findings of one region's collect
display_results ==
    /\ tFamily = "EC2" /\ tState = "returned"
    /\ summary = NotDisplayed
    /\ summary' = Displayed(findings)
    /\ UNCHANGED <<poolVars, taskVars, gateways, natPc, natFindings, kmsKey, kmsPc,
                   kmsFindings, queried, sessVars>>

\* run_ec2: findings = manager.run(); manager.display_results(findings)
run_ec2 ==
    /\ tFamily = "idle"
    /\ family = "EC2" /\ runPc = "returned"
    /\ summary = NotDisplayed
    /\ summary' = Displayed(all_findings)
    /\ UNCHANGED <<poolVars, taskVars, gateways, natPc, natFindings, kmsKey, kmsPc,
                   kmsFindings, queried, sessVars>>

DisplayIdle == summary = NotDisplayed

----------------------------------------------------------------------------
(* AWSSessionManager.get_session, called by several threads on the one       *)
(* manager object; a thread can be switched out between any two steps        *)

NoSession == [region |-> "-", n |-> 0]

\* boto3.Session(region_name=region): the n-th session object built for the region
Session(region, n) == [region |-> region, n |-> n]

Callers == 1..NumCallers

\* a thread about to call get_client(service_name, region)
Calling(region) == [region |-> region, pc |-> "check", local |-> NoSession,
                    got |-> NoSession]

SessInit ==
    /\ session = [r \in RegionNames |-> NoSession]
    /\ created = [r \in RegionNames |-> 0]
    /\ caller \in [Callers -> {Calling(r) : r \in RegionNames}]

\* `if region not in self._session:`
CheckSession(c) ==
    /\ caller[c].pc = "check"
    /\ caller' = [caller EXCEPT ![c].pc =
                      IF session[caller[c].region] = NoSession THEN "create" ELSE "return"]
    /\ UNCHANGED <<session, created>>

\* the right-hand side boto3.Session(region_name=region) is evaluated
CreateSession(c) ==
    /\ caller[c].pc = "create"
    /\ created' = [created EXCEPT ![caller[c].region] = @ + 1]
    /\ caller' = [caller EXCEPT ![c].pc = "store",
                                ![c].local = Session(caller[c].region,
                                                     created[caller[c].region] + 1)]
    /\ UNCHANGED session

\* `self._session[region] = ...`
StoreSession(c) ==
    /\ caller[c].pc = "store"
    /\ session' = [session EXCEPT ![caller[c].region] = caller[c].local]
    /\ caller' = [caller EXCEPT ![c].pc = "return"]
    /\ UNCHANGED created

\* `return self._session[region]`
ReturnSession(c) ==
    /\ caller[c].pc = "return"
    /\ caller' = [caller EXCEPT ![c].pc = "done", ![c].got = session[caller[c].region]]
    /\ UNCHANGED <<session, created>>

\* one step of one thread inside get_session
get_session ==
    /\ \E c \in DOMAIN caller :
          \/ CheckSession(c)
          \/ CreateSession(c)
          \/ StoreSession(c)
          \/ ReturnSession(c)
    /\ UNCHANGED <<poolVars, taskVars, gateways, natPc, natFindings, kmsKey, kmsPc,
                   kmsFindings, queried, summary>>

SessIdle ==
    /\ session = [r \in RegionNames |-> NoSession]
    /\ created = [r \in RegionNames |-> 0]
    /\ caller = <<>>

UnitIdle == NatIdle /\ KmsIdle /\ DisplayIdle /\ SessIdle

----------------------------------------------------------------------------
(* Specifications *)

PoolIdle ==
    /\ family = "EC2"
    /\ target = NoTarget
    /\ listing = RegionListing(0)
    /\ prov = [r \in RegionNames |-> "empty"]
    /\ runPc = "returned"
    /\ regions = <<>>
    /\ queue = <<>>
    /\ task = [r \in RegionNames |-> "none"]
    /\ runs = [r \in RegionNames |-> 0]
    /\ handled = [r \in RegionNames |-> 0]
    /\ all_findings = <<>>
    /\ log = {}
    /\ exc = "none"

\* a multi-region run of one family
Init == PoolInit /\ TaskIdle /\ UnitIdle

Next ==
    \/ Submit
    \/ StartTask
    \/ \E r \in RegionNames : FinishTask(r)
    \/ \E r \in RegionNames : Merge(r)
    \/ Interrupt
    \/ Return
    \/ Unwind

Spec == Init /\ [][Next]_vars

\* the threads of the pool and the main thread are scheduled by the
\* interpreter: each step that stays possible is eventually taken. The
\* interrupt is the environment's and is under no obligation.
ProgramStep ==
    \/ Submit
    \/ StartTask
    \/ \E r \in RegionNames : FinishTask(r)
    \/ \E r \in RegionNames : Merge(r)
    \/ Return
    \/ Unwind

\* the scheduling does not depend on what a task finds: the regions of the
\* fair runs either hold resources or fail entirely
FairInit ==
    /\ Init
    /\ \A r \in Scanned(family, target, listing) : prov[r] \in {"ok", "allfail"}

FairSpec == FairInit /\ [][Next]_vars /\ WF_vars(ProgramStep)

\* one region's task
TaskNext ==
    \/ CollectClient
    \/ \E sub \in Range(EC2SubScans) : CollectSubScan(sub)
    \/ scan_db_instances
    \/ scan_db_clusters
    \/ scan_snapshots
    \/ scan_cluster_snapshots
    \/ scan_reserved_instances
    \/ scan_db_proxies
    \/ generate_summary_report
    \/ display_results

TaskSpecInit == PoolIdle /\ TaskInit /\ UnitIdle

TaskSpec == TaskSpecInit /\ [][TaskNext]_vars

\* an auditor object whose run_audit may be called again; its configuration
\* asks for the instances and their snapshots only
AuditInit ==
    /\ PoolIdle /\ TaskInit /\ UnitIdle
    /\ tFamily = "RDS"
    /\ config = [include_clusters |-> FALSE, include_snapshots |-> TRUE,
                 include_reserved |-> FALSE, include_proxies |-> FALSE]

AuditNext ==
    \/ scan_db_instances
    \/ scan_db_clusters
    \/ scan_snapshots
    \/ scan_cluster_snapshots
    \/ scan_reserved_instances
    \/ scan_db_proxies
    \/ generate_summary_report
    \/ RunAuditAgain

AuditSpec == AuditInit /\ [][AuditNext]_vars

\* one call of _scan_nat_gateways
NatSpecInit == PoolIdle /\ TaskIdle /\ KmsIdle /\ DisplayIdle /\ SessIdle /\ NatInit

NatNext == ScanNatGateway

NatSpec == NatSpecInit /\ [][NatNext]_vars

\* a scan and its report: the multi-region run of run_ec2 with its tables, or
\* one region's collect with its tables, or an audit with every toggle on and
\* its summary report
ReportInit ==
    \/ Init /\ family = "EC2"
    \/ TaskSpecInit /\ \A k \in DOMAIN config : config[k]

ReportNext ==
    \/ Submit
    \/ StartTask
    \/ \E r \in RegionNames : FinishTask(r)
    \/ \E r \in RegionNames : Merge(r)
    \/ Interrupt
    \/ Return
    \/ Unwind
    \/ run_ec2
    \/ CollectClient
    \/ \E sub \in Range(EC2SubScans) : CollectSubScan(sub)
    \/ scan_db_instances
    \/ scan_db_clusters
    \/ scan_snapshots
    \/ scan_cluster_snapshots
    \/ scan_reserved_instances
    \/ scan_db_proxies
    \/ generate_summary_report
    \/ display_results

ReportSpec == ReportInit /\ [][ReportNext]_vars

\* the loop body of scan_region for one key
KmsSpecInit == PoolIdle /\ TaskIdle /\ NatIdle /\ DisplayIdle /\ SessIdle /\ KmsInit

KmsNext ==
    \/ DescribeKey
    \/ GetRotationStatus

KmsSpec == KmsSpecInit /\ [][KmsNext]_vars

\* the two snapshot scans of an audit whose instance and cluster scans are
\* over: the identifiers are names, and an instance and a cluster can bear
\* the same one
LiveNames == {<<"db_instances", 1>>, <<"db_clusters", 1>>}

SnapInit ==
    /\ PoolIdle /\ UnitIdle
    /\ tFamily = "RDS"
    /\ config = [include_clusters |-> TRUE, include_snapshots |-> TRUE,
                 include_reserved |-> TRUE, include_proxies |-> TRUE]
    /\ tPc = "db_snapshots"
    /\ tState = "running"
    /\ findings = <<>>
    /\ cost_items = <<>>
    /\ active_instances \in SUBSET LiveNames
    /\ active_clusters \in SUBSET LiveNames
    /\ used = [q \in Range(EC2SubScans) \cup Range(RDSQueries) |-> NotRun]
    /\ audits = 1

SnapNext ==
    \/ scan_snapshots
    \/ scan_cluster_snapshots

SnapSpec == SnapInit /\ [][SnapNext]_vars

\* threads calling get_session on the one AWSSessionManager
SessSpecInit == PoolIdle /\ TaskIdle /\ NatIdle /\ KmsIdle /\ DisplayIdle /\ SessInit

SessNext == get_session

SessSpec == SessSpecInit /\ [][SessNext]_vars

----------------------------------------------------------------------------
(* Vocabulary of the properties *)

RunEnded == runPc \in {"returned", "raised"}
Interrupted == exc = "KeyboardInterrupt"

\* the part of the returned list that names region r
FindingsOf(r) == SelectSeq(all_findings, LAMBDA f : f.region = r)

\* what the task of region r yields when it is alone
Contributes(r) == Extend(family, <<>>, TaskOutcome(family, r, prov[r]).findings)

\* every provider call of region r raises, or its client cannot be obtained
FailsEntirely(r) == prov[r] \in {"allfail", "noclient"}

\* no region can be resolved; no credentials: every provider call raises
NoRegions == target = NoTarget /\ (~listing.ok \/ listing.Regions = <<>>)
NoCredentials ==
    /\ target = NoTarget => ~listing.ok
    /\ \A r \in Scanned(family, target, listing) : prov[r] = "allfail"

----------------------------------------------------------------------------
(* Multi-region run: Spec *)

C2_FailureIsolation ==
    (runPc = "returned" /\ ~Interrupted) =>
        \A r \in Range(regions) : FailsEntirely(r) =>
            \A o \in Range(regions) \ {r} : FindingsOf(o) = Contributes(o)

C2_Witness ==
    /\ runPc = "returned" /\ ~Interrupted
    /\ \E r \in Range(regions) : FailsEntirely(r) /\ task[r] = "raised"
    /\ \E o \in Range(regions) : ~FailsEntirely(o) /\ Len(FindingsOf(o)) > 0

C8_InterruptAbandons ==
    Interrupted =>
        /\ runPc = "shutdown" => ENABLED Unwind
        /\ runPc # "raised"
        /\ runPc = "returned" =>
              \A r \in Range(regions) : handled[r] = 1 => FindingsOf(r) = Contributes(r)

\* C9 (as stated): when the region listing fails, the regions are ["us-east-1"],
\* nothing is raised, and that region is scanned.
C9_FailOpenEveryFamily ==
    (target = NoTarget /\ ~listing.ok /\ runPc # "start") =>
        /\ regions = <<DefaultRegion>>
        /\ runPc # "raised"
        /\ RunEnded => runs[DefaultRegion] = 1

\* C10 (as stated): a fatal configuration error leaves run as an exception.
C10_FatalConfigPropagates ==
    (RunEnded /\ ~Interrupted /\ (NoRegions \/ NoCredentials)) => runPc = "raised"

\* C10 (amended): nothing but a KeyboardInterrupt (EC2, NAT) leaves run as an
\* exception; with no region resolvable or no credentials run returns its list.
C10_OnlyInterruptLeavesRun ==
    /\ runPc = "raised" => (Interrupted /\ family # "KMS")
    /\ (RunEnded /\ ~Interrupted /\ (NoRegions \/ NoCredentials)) => runPc = "returned"

C10_Witness ==
    /\ runPc = "returned"
    /\ family = "EC2"
    /\ NoRegions /\ NoCredentials
    /\ runs[DefaultRegion] = 1
    /\ all_findings = <<>>

----------------------------------------------------------------------------
(* Multi-region run under fair scheduling: FairSpec *)

\* C6: never more than max_workers tasks run at once, no task is started
\* twice, and every queued task is eventually run to its end, once.
C6_BoundedConcurrency ==
    /\ [](Cardinality(Running) <= MaxWorkers /\ \A r \in RegionNames : runs[r] <= 1)
    /\ \A r \in RegionNames :
          (task[r] = "queued") ~> (task[r] \in Finished /\ runs[r] = 1)

C6_Witness ==
    /\ Len(regions) > MaxWorkers
    /\ Cardinality(Running) = MaxWorkers
    /\ queue # <<>>

\* C7: when run has ended no submitted task is queued or running, and run
\* eventually returns (or is left by the interrupt that was delivered).
C7_RunJoinsAllTasks ==
    /\ [](RunEnded => (queue = <<>> /\ \A r \in Range(regions) : task[r] \in Finished))
    /\ <>(runPc = "returned" \/ (runPc = "raised" /\ Interrupted))

C7_Witness ==
    /\ runPc = "returned"
    /\ Len(regions) > MaxWorkers
    /\ \E r \in Range(regions) : task[r] = "raised"
    /\ \E r \in Range(regions) : task[r] = "done"

----------------------------------------------------------------------------
(* One region's task: TaskSpec *)

TaskQueries == IF tFamily = "EC2" THEN EC2SubScans ELSE RDSQueries

\* the query is issued under the configuration
Included(q) ==
    CASE q = "db_clusters" -> config.include_clusters
      [] q \in {"snap_manual", "snap_automated"} -> config.include_snapshots
      [] q \in {"csnap_manual", "csnap_automated"} ->
            config.include_clusters /\ config.include_snapshots
      [] q = "reserved" -> config.include_reserved
      [] q = "proxies" -> config.include_proxies
      [] OTHER -> TRUE

\* the findings of the task's result that query q produced
Contribution(q) ==
    IF q \in Range(EC2SubScans)
    THEN SelectSeq(findings, LAMBDA f : f.service = EC2Service(q))
    ELSE SelectSeq(cost_items, LAMBDA f : f.resource_type = RDSType(q))

ContributionIds(q) == [i \in DOMAIN Contribution(q) |-> Contribution(q)[i].resource_id]

\* C4 (as stated): whatever a sub-scan raised, the task does not end with an
\* exception and every later sub-scan was run.
C4_SubScanErrorIsolated ==
    tState # "running" =>
        \A i \in DOMAIN TaskQueries : Raises(used[TaskQueries[i]]) =>
            /\ tState = "returned"
            /\ \A j \in DOMAIN TaskQueries :
                  (j > i /\ Included(TaskQueries[j])) => used[TaskQueries[j]] # NotRun

----------------------------------------------------------------------------
(* Orphan classification of snapshots: TaskSpec, AuditSpec *)

\* the queries of the task whose findings are snapshots
TaskSnapshotQueries ==
    IF tFamily = "EC2" THEN {"snapshots"} ELSE SnapshotQueries

\* the finding carries an orphan flag
HasOrphanFlag(f) == "is_orphan" \in DOMAIN f

\* the index a snapshot of query q is looked up in: safe_list for the DB
\* snapshots, active_clusters for the cluster snapshots
IndexFor(q) ==
    IF q \in {"snap_manual", "snap_automated"}
    THEN active_instances \cup active_clusters
    ELSE active_clusters

\* the identifiers of the instances and clusters the provider holds
LiveIds ==
    Range(Ids(Flatten(Pages("db_instances")))) \cup Range(Ids(Flatten(Pages("db_clusters"))))

\* the finding of the i-th record of query q is flagged as its source demands
FlagMatchesIndex(q, i) ==
    LET f == Contribution(q)[i] IN
    /\ HasOrphanFlag(f)
    /\ i \in DOMAIN Processed(used[q])
    /\ IF HasOrphanFlag(f)
       THEN f.is_orphan <=> (Processed(used[q])[i].source \notin IndexFor(q))
       ELSE FALSE

C12_NoSourceSnapshotGoesOn ==
    tState # "running" =>
        \A i \in DOMAIN RDSQueries :
            LET q == RDSQueries[i] IN
            (q \in SnapshotQueries /\ RecordRaises(used[q])) =>
                /\ Len(Contribution(q)) = Len(Flatten(PagesRead(used[q])))
                /\ \A k \in DOMAIN Contribution(q) :
                      Flatten(PagesRead(used[q]))[k].source = NoSource =>
                          Contribution(q)[k].is_orphan
                /\ tState = "returned"
                /\ \A j \in DOMAIN RDSQueries :
                      (j > i /\ Included(RDSQueries[j])) => used[RDSQueries[j]] # NotRun

\* C13 (as stated): snapshots are classified only after the instance and
\* cluster sub-scans ran, and no snapshot whose source the provider holds is
\* flagged orphan.
C13_IndexCompleteBeforeClassification ==
    tFamily = "RDS" =>
        \A q \in SnapshotQueries :
            /\ used[q] # NotRun => used["db_instances"] # NotRun
            /\ \A i \in DOMAIN Contribution(q) :
                  Contribution(q)[i].is_orphan =>
                      Processed(used[q])[i].source \notin LiveIds

\* C14 (as stated): when snapshots are classified, the index holds only
\* identifiers collected in this execution of the task.
C14_IndexOnlyThisExecution ==
    (tFamily = "RDS" /\ tState = "running" /\ tPc = "db_snapshots") =>
        /\ active_instances \subseteq Range(Ids(Flatten(PagesRead(used["db_instances"]))))
        /\ active_clusters \subseteq Range(Ids(Flatten(PagesRead(used["db_clusters"]))))

----------------------------------------------------------------------------
(* NAT gateways: NatSpec *)

Scanned_gateways == 1..Len(natFindings)

\* the 30-day traffic of the gateway the provider measured, in MiB
MeasuredMiB(g) == SumSeq(g.BytesInFromSource.Datapoints) + SumSeq(g.BytesOutToDestination.Datapoints)

BothMeasured(g) == g.BytesInFromSource.ok /\ g.BytesOutToDestination.ok

\* C15 (as stated): a gateway whose traffic was measured is flagged zombie
\* exactly when it is older than 24 hours and its traffic is below 1.0 GB.
C15_ZombieIffOldAndIdle ==
    \A i \in Scanned_gateways :
        BothMeasured(gateways[i]) =>
            (natFindings[i].is_zombie <=>
                /\ gateways[i].age # NoCreateTime
                /\ gateways[i].age > ZombieMinHours * SecondsPerHour
                /\ MeasuredMiB(gateways[i]) < ZombieMaxGB * MiBPerGB)

\* C16: a failed metric query adds zero to the traffic of its gateway and the
\* other metric is still added; the gateway is emitted and the gateways after
\* it are scanned.
C16_FailedMetricAddsZero ==
    /\ natPc \in DOMAIN gateways => ENABLED ScanNatGateway
    /\ (\A i \in Scanned_gateways :
            /\ natFindings[i].resource_id = gateways[i].NatGatewayId
            /\ natFindings[i].traffic_gb =
                  RoundHalfEven(
                     ((IF gateways[i].BytesInFromSource.ok
                       THEN SumSeq(gateways[i].BytesInFromSource.Datapoints) ELSE 0)
                      + (IF gateways[i].BytesOutToDestination.ok
                         THEN SumSeq(gateways[i].BytesOutToDestination.Datapoints) ELSE 0))
                     * HundredthsPerGB, MiBPerGB))
    /\ natPc = Len(gateways) + 1 => Len(natFindings) = Len(gateways)

C16_Witness ==
    /\ natPc = Len(gateways) + 1
    /\ Len(natFindings) = Len(GatewayIds)
    /\ ~gateways[1].BytesInFromSource.ok
    /\ gateways[1].BytesOutToDestination = Metric(TRUE, <<510, 510>>)
    /\ natFindings[1].traffic_gb = 100
    /\ natFindings[2].traffic_gb = 30

\* C17 (as stated): when a traffic query of a gateway failed, the traffic
\* recorded is not a value a measurement can give.
C17_UnknownSentinel ==
    \A i \in Scanned_gateways :
        ~BothMeasured(gateways[i]) =>
            natFindings[i].traffic_gb \notin
                {get_traffic_metrics(Gateway("m", 0, a, b)) :
                    a \in {m \in MetricOptions : m.ok}, b \in {m \in MetricOptions : m.ok}}

\* the key the loop body is past: appended, or left with an exception
KeyDone == kmsPc \in {"appended", "raised"}

\* the metadata describe_key returned says key manager "AWS"
DescribedAwsManaged ==
    /\ kmsKey.describe = "ok"
    /\ describe_key_meta(kmsKey).key_manager = "AWS"

\* the reasons rotation_applicability gives when rotation does not apply
NotApplicableReasons ==
    {"AWS_MANAGED", "NOT_ENCRYPT_DECRYPT", "IMPORTED_KEY_MATERIAL", "ASYMMETRIC_OR_HMAC"}

\* the reasons recorded after the rotation-status query
QueriedReasons == {"ENABLED", "DISABLED", "UNKNOWN_OR_NO_PERMISSION"}

\* of the key specs of KMS, SYMMETRIC_DEFAULT alone is neither an asymmetric
\* nor an HMAC algorithm
AsymmetricOrHmac(key_spec) == key_spec \in KeySpecs \ {SYMMETRIC_DEFAULT}

\* C18: for a key whose key manager is "AWS", whatever its usage, origin and
\* key spec, the rotation-status query is never issued, and its finding is
\* appended with rotation reason AWS_MANAGED and no rotation status.
C18_AwsManagedNeverQueried ==
    /\ kmsKey.KeyManager = "AWS" => kmsPc # "rotation" /\ kmsKey.KeyId \notin queried
    /\ DescribedAwsManaged /\ kmsPc # "describe" =>
            /\ kmsPc = "appended"
            /\ Len(kmsFindings) = 1
            /\ kmsFindings[1].key_id = kmsKey.KeyId
            /\ kmsFindings[1].key_manager = "AWS"
            /\ kmsFindings[1].rotation_reason = "AWS_MANAGED"
            /\ kmsFindings[1].rotation_enabled = "None"
    /\ \A i \in DOMAIN kmsFindings :
            kmsFindings[i].key_manager = "AWS" =>
                /\ kmsFindings[i].rotation_reason = "AWS_MANAGED"
                /\ kmsFindings[i].rotation_enabled = "None"

C18_Witness ==
    /\ DescribedAwsManaged
    /\ kmsKey.KeyUsage = "SIGN_VERIFY"
    /\ kmsKey.Origin = "EXTERNAL"
    /\ kmsKey.KeySpec = <<"RSA", "2048">>
    /\ kmsKey.rotation = "Other"
    /\ kmsPc = "appended"
    /\ kmsFindings[1].rotation_reason = "AWS_MANAGED"
    /\ queried = {}

\* C19 (as stated): for a key whose metadata was read, the rotation-status
\* query is issued iff the key is not managed by AWS, its usage is
\* ENCRYPT_DECRYPT, its origin is not EXTERNAL and its key spec is neither
\* asymmetric nor HMAC; a key not queried is recorded with a not-applicable
\* reason, a key queried with one of enabled, disabled, unknown.
C19_QueriedIffApplicable ==
    kmsKey.describe = "ok" /\ KeyDone =>
        /\ kmsKey.KeyId \in queried <=>
              /\ kmsKey.KeyManager # "AWS"
              /\ kmsKey.KeyUsage = "ENCRYPT_DECRYPT"
              /\ kmsKey.Origin # "EXTERNAL"
              /\ ~AsymmetricOrHmac(kmsKey.KeySpec)
        /\ Len(kmsFindings) = 1
        /\ kmsFindings[1].rotation_reason \in
              (IF kmsKey.KeyId \in queried THEN QueriedReasons ELSE NotApplicableReasons)

\* the ids of the available volumes _scan_orphan_volumes read
AvailableVolumeIds == Ids(Flatten(PagesRead(used["orphan_volumes"])))

FindingsWithId(id) == SelectSeq(findings, LAMBDA f : f.resource_id = id)

RECURSIVE SizeOver(_, _)
SizeOver(items, S) ==
    IF S = {} THEN 0
    ELSE LET i == CHOOSE j \in S : TRUE
         IN items[i].size_gb + SizeOver(items, S \ {i})

\* the positions of the items of a type, and of its orphans
PositionsOf(items, type) == {i \in DOMAIN items : items[i].resource_type = type}

OrphanPositionsOf(items, type) == {i \in PositionsOf(items, type) : items[i].is_orphan}

\* the regions whose result the loop of run merged
MergedRegions == {r \in Range(regions) : task[r] = "done" /\ Yielded(r)}

\* how many findings of a service the tasks of the regions R returned
RECURSIVE CountOver(_, _)
CountOver(R, service) ==
    IF R = {} THEN 0
    ELSE LET r == CHOOSE x \in R : TRUE
         IN Len(ItemsOf(TaskOutcome(family, r, prov[r]).findings, service))
            + CountOver(R \ {r}, service)

ServiceNames == {"EC2", "EBS Volume", "Orphan Volume", "Snapshot", "Elastic IP"}

TypeNames == {RDSType(q) : q \in Range(RDSQueries)}

RowsOf(type) == {row \in summary.rows : row.Resource_Type = type}

C22_GroupsInLexOrder ==
    /\ summary.shown = "tables" =>
          /\ summary.sections = sorted(Range(summary.sections))
          /\ summary.order = sorted(Range(summary.order))
    /\ summary.shown = "report" => summary.order = sorted(Range(summary.order))

\* what the provider holds for the gateway scan of region r
HeldGateways(r) == Flatten(NATData(prov[r]).gateways.pages)

\* C23 (as stated): when the gateway scan of a region met no error, every
\* gateway of every page the provider holds is among the region's findings.
C23_EveryPageEmitted ==
    (runPc = "returned" /\ ~Interrupted /\ family = "NAT") =>
        \A r \in Range(regions) :
            (task[r] = "done" /\ NATData(prov[r]).client /\ ~Raises(NATData(prov[r]).gateways)) =>
                \A i \in DOMAIN HeldGateways(r) :
                    \E j \in DOMAIN FindingsOf(r) :
                        FindingsOf(r)[j].resource_id = HeldGateways(r)[i].id

\* the threads that called get_session for region r and have returned
ReturnedFor(r) == {c \in DOMAIN caller : caller[c].region = r /\ caller[c].pc = "done"}

\* C24: for any interleaving of concurrent get_session calls for one region,
\* exactly one session is created for the region and every caller is
\* returned that same session, which is the cache entry
C24_OneSessionPerRegion ==
    \A r \in RegionNames :
        /\ created[r] <= 1
        /\ \A c \in ReturnedFor(r) :
              /\ created[r] = 1
              /\ caller[c].got = Session(r, 1)
              /\ session[r] = caller[c].got

\* the findings of the merged list name a resolved region whose task was run
MergedCarryRegion ==
    \A i \in DOMAIN all_findings :
        /\ "region" \in DOMAIN all_findings[i]
        /\ all_findings[i].region \in Range(regions)
        /\ runs[all_findings[i].region] >= 1
        /\ all_findings[i] \in Range(Contributes(all_findings[i].region))

\* C25 (as stated): every finding of every family carries the region of the
\* task that produced it, a member of the resolved region list; the items of
\* the database audit included.
C25_EveryFindingCarriesRegion ==
    /\ MergedCarryRegion
    /\ \A i \in DOMAIN cost_items : "region" \in DOMAIN cost_items[i]

\* the position of key k in the sequence order
IndexIn(order, k) == CHOOSE i \in DOMAIN order : order[i] = k

\* the keys never step back in the order
NonDecreasing(keys, order) ==
    \A i, j \in DOMAIN keys : i < j => IndexIn(order, keys[i]) <= IndexIn(order, keys[j])

\* the services of the compute sub-scans, in the order collect runs them
ServiceOrder == [i \in DOMAIN EC2SubScans |-> EC2Service(EC2SubScans[i])]

\* the resource ids the provider handed to sub-scan q, page after page
IdsHeld(q) == Ids(Processed(used[q]))

\* the findings of one region are one block of the merged list
OneBlock(r) ==
    \A i, j, k \in DOMAIN all_findings :
        (i < k /\ k < j /\ all_findings[i].region = r /\ all_findings[j].region = r)
            => all_findings[k].region = r

\* C26: in the merged list the findings of a region are one contiguous
\* block, in the order of the sub-scans of the family and, within a
\* sub-scan, of the provider's pages: for every order in which the region
\* tasks end. The list of one compute task and the items of one database
\* audit are in sub-scan order, then page order.
C26_RegionBlocksInOrder ==
    /\ \A r \in RegionNames :
          /\ OneBlock(r)
          /\ FindingsOf(r) # <<>> => FindingsOf(r) = Contributes(r)
          /\ NonDecreasing([i \in DOMAIN FindingsOf(r) |-> FindingsOf(r)[i].service],
                           ServiceOrder)
    /\ [i \in DOMAIN findings |-> findings[i].resource_id]
          = Flatten([k \in DOMAIN EC2SubScans |-> IdsHeld(EC2SubScans[k])])
    /\ [i \in DOMAIN cost_items |-> cost_items[i].resource_id]
          = Flatten([k \in DOMAIN RDSQueries |-> IdsHeld(RDSQueries[k])])

\* two regions with instances and a volume were merged, the second of the
\* list first
C26_Witness ==
    /\ runPc = "returned" /\ tFamily = "idle" /\ family = "EC2"
    /\ Len(regions) >= 2
    /\ prov[regions[1]] = "ok" /\ prov[regions[2]] = "ok"
    /\ Len(all_findings) >= 6
    /\ all_findings[1].region = regions[2]
    /\ all_findings[4].region = regions[1]

\* C27: under every setting of the four toggles, run_audit issues no query
\* and holds no item of a kind that is not included (clusters, snapshots,
\* cluster snapshots that need both toggles, reserved instances, proxies);
\* the instances are queried and their items held under every setting, and
\* an audit that returned has issued the query of every included kind.
C27_TogglesRespected ==
    tFamily = "RDS" =>
        /\ \A k \in DOMAIN RDSQueries :
              ~Included(RDSQueries[k]) =>
                  /\ used[RDSQueries[k]] = NotRun
                  /\ Contribution(RDSQueries[k]) = <<>>
        /\ tPc # "db_instances" =>
              /\ used["db_instances"] # NotRun
              /\ ContributionIds("db_instances") = IdsHeld("db_instances")
        /\ tState = "returned" =>
              \A k \in DOMAIN RDSQueries : Included(RDSQueries[k]) => used[RDSQueries[k]] # NotRun

\* an audit with the snapshots but without the clusters returned: it holds
\* instances and instance snapshots, and the provider has cluster snapshots
C27_Witness ==
    /\ tFamily = "RDS" /\ tState = "returned"
    /\ ~config.include_clusters /\ config.include_snapshots
    /\ config.include_reserved /\ ~config.include_proxies
    /\ Contribution("db_instances") # <<>>
    /\ Contribution("snap_manual") # <<>>
    /\ Contribution("reserved") # <<>>
    /\ Pages("csnap_manual") # <<>>

\* what the provider reported during the latest invocation of run_audit
ReportedNow == Flatten([k \in DOMAIN RDSQueries |-> IdsHeld(RDSQueries[k])])

\* C28 (as stated): when an invocation of run_audit on an auditor object has
\* returned, whatever the number of earlier invocations on that object, the
\* items hold every resource the provider reported during it exactly once
\* and nothing else, and the summary counts these.
C28_LatestInvocationOnly ==
    (tFamily = "RDS" /\ tState = "returned") =>
        /\ [i \in DOMAIN cost_items |-> cost_items[i].resource_id] = ReportedNow
        /\ summary.shown = "report" /\ summary.total = Len(ReportedNow)

SourceOf(q, i) == Processed(used[q])[i].source

\* C30: an instance snapshot is flagged orphan exactly when its source
\* identifier is neither among the live instances nor among the live
\* clusters; a cluster snapshot exactly when its source identifier is not
\* among the live clusters, whether or not a live instance bears it.
C30_OrphanTests ==
    tFamily = "RDS" =>
        /\ \A q \in {"snap_manual", "snap_automated"} :
              /\ Len(Contribution(q)) = Len(Processed(used[q]))
              /\ \A i \in DOMAIN Contribution(q) :
                    Contribution(q)[i].is_orphan <=>
                        /\ SourceOf(q, i) \notin active_instances
                        /\ SourceOf(q, i) \notin active_clusters
        /\ \A q \in {"csnap_manual", "csnap_automated"} :
              /\ Len(Contribution(q)) = Len(Processed(used[q]))
              /\ \A i \in DOMAIN Contribution(q) :
                    Contribution(q)[i].is_orphan <=> SourceOf(q, i) \notin active_clusters

\* the name of the instance snapshot's source is borne by a live cluster
\* only, that of the cluster snapshot's source by a live instance only
C30_Witness ==
    /\ tFamily = "RDS" /\ tPc = "reserved"
    /\ active_instances = {<<"db_clusters", 1>>}
    /\ active_clusters = {<<"db_instances", 1>>}
    /\ Contribution("snap_manual") # <<>>
    /\ SourceOf("snap_manual", 1) = <<"db_instances", 1>>
    /\ ~Contribution("snap_manual")[1].is_orphan
    /\ Contribution("csnap_manual") # <<>>
    /\ SourceOf("csnap_manual", 1) = <<"db_clusters", 1>>
    /\ Contribution("csnap_manual")[1].is_orphan

====
